---- MODULE Spec2Model ----
(***************************************************************************)
(* A model of src/main.py: the feed traversal                              *)
(* (collect_image_urls_from_home), the post resolver                       *)
(* (group_images_by_date), the time-label parser (human_time_to_dt) and    *)
(* the image acquisition step (main, download_with_fallback).              *)
(*                                                                         *)
(* Text is modelled as a sequence of one-character strings.  The Japanese  *)
(* characters of the date labels are written with ASCII names:             *)
(*   "fun" = 分, "mae" = 前, "ji" = 時, "kan" = 間, "nichi" = 日,          *)
(*   "gatsu" = 月, "nen" = 年, "byou" = 秒, "kinou" = 昨, "kyou" = 今.     *)
(* A timestamp is a number of seconds since 2024-01-01 00:00:00; an        *)
(* optional value is <<>> (None) or <<v>>.                                 *)
(***************************************************************************)
EXTENDS Integers, Sequences, FiniteSets, TLC

(***************************************************************************)
(* Text helpers (Python str methods).                                      *)
(***************************************************************************)
None == <<>>
Some(v) == <<v>>

DigitChars == <<"0", "1", "2", "3", "4", "5", "6", "7", "8", "9">>
IsDigit(c) == \E k \in 1..10 : DigitChars[k] = c
DigitVal(c) == (CHOOSE k \in 1..10 : DigitChars[k] = c) - 1
IsSpace(c) == c \in {" ", "\t", "\n"}

\* s[a..b] as Python's s[a-1:b]
Slice(s, a, b) == IF a > b THEN <<>> ELSE SubSeq(s, a, b)
Drop(s, n) == Slice(s, n + 1, Len(s))

\* str.startswith
StartsWith(s, p) == Len(p) <= Len(s) /\ SubSeq(s, 1, Len(p)) = p

\* the `in` operator on str
Contains(s, p) == \E k \in 0..(Len(s) - Len(p)) : SubSeq(s, k + 1, k + Len(p)) = p

RECURSIVE LStrip(_)
LStrip(s) == IF s # <<>> /\ IsSpace(Head(s)) THEN LStrip(Tail(s)) ELSE s
RECURSIVE RStrip(_)
RStrip(s) == IF s # <<>> /\ IsSpace(s[Len(s)]) THEN RStrip(SubSeq(s, 1, Len(s) - 1)) ELSE s
\* str.strip
Strip(s) == RStrip(LStrip(s))

\* length of the leading run of digits (what a greedy \d+ consumes)
RECURSIVE DigitRun(_)
DigitRun(s) == IF s # <<>> /\ IsDigit(Head(s)) THEN 1 + DigitRun(Tail(s)) ELSE 0

\* int() of a run of digits
RECURSIVE IntOf(_)
IntOf(s) == IF s = <<>> THEN 0 ELSE 10 * IntOf(SubSeq(s, 1, Len(s) - 1)) + DigitVal(s[Len(s)])

(***************************************************************************)
(* Calendar (datetime, timedelta).                                         *)
(***************************************************************************)
IsLeap(y) == (y % 4 = 0 /\ y % 100 # 0) \/ y % 400 = 0
DaysInMonth(y, m) ==
    IF m = 2 THEN (IF IsLeap(y) THEN 29 ELSE 28)
    ELSE IF m \in {4, 6, 9, 11} THEN 30 ELSE 31
DaysInYear(y) == IF IsLeap(y) THEN 366 ELSE 365
RECURSIVE DaysBeforeYear(_)
DaysBeforeYear(y) == IF y <= 2024 THEN 0 ELSE DaysBeforeYear(y - 1) + DaysInYear(y - 1)
RECURSIVE DaysBeforeMonth(_, _)
DaysBeforeMonth(y, m) == IF m <= 1 THEN 0 ELSE DaysBeforeMonth(y, m - 1) + DaysInMonth(y, m - 1)

\* datetime(y, mo, d, h, mi, s) raises ValueError on an invalid date
ValidDate(y, mo, d) == mo \in 1..12 /\ d >= 1 /\ d <= DaysInMonth(y, mo)
\* datetime(y, mo, d, h, mi, s) as a timestamp
ToSec(y, mo, d, h, mi, s) ==
    (DaysBeforeYear(y) + DaysBeforeMonth(y, mo) + (d - 1)) * 86400 + h * 3600 + mi * 60 + s
\* datetime.date(): the day number
DateOf(t) == t \div 86400
\* datetime.year
RECURSIVE YearFrom(_, _)
YearFrom(day, y) == IF day < DaysInYear(y) THEN y ELSE YearFrom(day - DaysInYear(y), y + 1)
YearOf(t) == YearFrom(DateOf(t), 2024)
\* datetime.combine(d, time(23, 59, 59))
EndOfDay(d) == d * 86400 + 86399

(***************************************************************************)
(* human_time_to_dt: a display label to a timestamp, or None.              *)
(***************************************************************************)
\* re.match(r"^(\d+)\s*<unit>$", t): the number, or None
MatchRelative(t, unit) ==
    LET n == DigitRun(t)
        rest == LStrip(Drop(t, n))
    IN  IF n >= 1 /\ rest = unit THEN Some(IntOf(SubSeq(t, 1, n))) ELSE None

\* re.match(r"^(\d{1,2})月(\d{1,2})日", t): <<month, day>>, or None
MatchMonthDay(t) ==
    LET n == DigitRun(t)
        r1 == Drop(t, n)
        r2 == IF r1 = <<>> THEN <<>> ELSE Tail(r1)
        k == DigitRun(r2)
        r3 == Drop(r2, k)
    IN  IF /\ n \in 1..2
           /\ r1 # <<>> /\ Head(r1) = "gatsu"
           /\ k \in 1..2
           /\ r3 # <<>> /\ Head(r3) = "nichi"
        THEN Some(<<IntOf(SubSeq(t, 1, n)), IntOf(SubSeq(r2, 1, k))>>)
        ELSE None

\* human_time_to_dt with a month and day that lie after now taken as last year's
human_time_rollback(text, now) ==
    IF text = <<>> THEN None
    ELSE
    LET t == Strip(text)
        mMin == MatchRelative(t, <<"fun", "mae">>)
        mHour == MatchRelative(t, <<"ji", "kan", "mae">>)
        mDay == MatchRelative(t, <<"nichi", "mae">>)
        mMD == MatchMonthDay(t)
        y == YearOf(now)
    IN  IF mMin # None THEN Some(now - 60 * mMin[1])
        ELSE IF mHour # None THEN Some(now - 3600 * mHour[1])
        ELSE IF mDay # None THEN Some(now - 86400 * mDay[1])
        ELSE IF mMD # None
             THEN IF ValidDate(y, mMD[1][1], mMD[1][2])
                  THEN IF ToSec(y, mMD[1][1], mMD[1][2], 23, 59, 59) > now
                       THEN Some(ToSec(y - 1, mMD[1][1], mMD[1][2], 23, 59, 59))
                       ELSE Some(ToSec(y, mMD[1][1], mMD[1][2], 23, 59, 59))
                  ELSE None
        ELSE None

human_time_to_dt(text, now) ==
    IF text = <<>> THEN None
    ELSE
    LET t == Strip(text)
        mMin == MatchRelative(t, <<"fun", "mae">>)
        mHour == MatchRelative(t, <<"ji", "kan", "mae">>)
        mDay == MatchRelative(t, <<"nichi", "mae">>)
        mMD == MatchMonthDay(t)
    IN  IF mMin # None THEN Some(now - 60 * mMin[1])
        ELSE IF mHour # None THEN Some(now - 3600 * mHour[1])
        ELSE IF mDay # None THEN Some(now - 86400 * mDay[1])
        ELSE IF mMD # None
             THEN IF ValidDate(YearOf(now), mMD[1][1], mMD[1][2])
                  THEN Some(ToSec(YearOf(now), mMD[1][1], mMD[1][2], 23, 59, 59))
                  ELSE None
        ELSE None

(***************************************************************************)
(* group_images_by_date: the date and the image URLs of an opened post.    *)
(***************************************************************************)
Txt_https == <<"h", "t", "t", "p", "s", ":">>
Txt_http == <<"h", "t", "t", "p", ":">>
Txt_ss == <<"/", "/">>
Txt_host == <<"i", "m", "a", "g", "e", ".", "c", "o", "d", "m", "o", "n", ".", "c", "o", "m">>
Txt_amp == <<"&", "a", "m", "p", ";">>

\* IMG_HOST_PREFIX = "https://image.codmon.com/"
IMG_HOST_PREFIX == Txt_https \o Txt_ss \o Txt_host \o <<"/">>

\* html.unescape, for the entity &amp; (the one entity the modelled pages use)
RECURSIVE html_unescape(_)
html_unescape(u) ==
    IF u = <<>> THEN <<>>
    ELSE IF StartsWith(u, Txt_amp) THEN <<"&">> \o html_unescape(Drop(u, Len(Txt_amp)))
    ELSE <<Head(u)>> \o html_unescape(Tail(u))

\* lines 103-109: unescape, strip, make a protocol-relative URL absolute
NormalizeUrl(raw) ==
    LET u == Strip(html_unescape(raw))
    IN  IF StartsWith(u, Txt_ss) THEN Txt_https \o u ELSE u

\* lines 105-114: whether the normalised URL is kept
KeepUrl(u) ==
    /\ u # <<>>
    /\ (StartsWith(u, Txt_http \o Txt_ss) \/ StartsWith(u, Txt_https \o Txt_ss))
    /\ Contains(u, Txt_host)

\* lines 101-115: the cleaned list
RECURSIVE CleanUrls(_)
CleanUrls(raws) ==
    IF raws = <<>> THEN <<>>
    ELSE LET u == NormalizeUrl(Head(raws))
         IN  (IF KeepUrl(u) THEN <<u>> ELSE <<>>) \o CleanUrls(Tail(raws))

\* lines 117-124: drop repeats, keep the order of first appearance
RECURSIVE UniqFrom(_, _)
UniqFrom(us, seen) ==
    IF us = <<>> THEN <<>>
    ELSE IF Head(us) \in seen THEN UniqFrom(Tail(us), seen)
    ELSE <<Head(us)>> \o UniqFrom(Tail(us), seen \cup {Head(us)})
Uniq(us) == UniqFrom(us, {})

\* lines 50-69: the label candidates, markup regions first, title and body text
\* only when no markup region has text (the modelled texts are shorter than the
\* 300 characters line 69 keeps)
TextCandidates(post) ==
    LET marked == SelectSeq([k \in 1..Len(post.markup) |-> Strip(post.markup[k])],
                            LAMBDA t : t # <<>>)
    IN  IF marked # <<>> THEN marked
        ELSE (IF post.title # <<>> THEN <<Strip(post.title)>> ELSE <<>>)
             \o (IF Strip(post.body) # <<>> THEN <<Strip(post.body)>> ELSE <<>>)

\* lines 71-85: the first candidate that parses, else the fallback date
RECURSIVE FirstParsedDate(_, _)
FirstParsedDate(cands, now) ==
    IF cands = <<>> THEN None
    ELSE LET r == human_time_to_dt(Head(cands), now)
         IN  IF r # None THEN Some(DateOf(r[1])) ELSE FirstParsedDate(Tail(cands), now)

\* group_images_by_date: <<date, urls>> (the one entry of the returned dict);
\* line 74 parses against the clock, which reads the traversal's now
group_images_by_date(post, now, fallback_date) ==
    LET found == FirstParsedDate(TextCandidates(post), now)
        base_date == IF found # None THEN found[1] ELSE fallback_date
    IN  <<base_date, Uniq(CleanUrls(post.imgs))>>

(***************************************************************************)
(* The state.                                                              *)
(***************************************************************************)
VARIABLES
    \* the browser: the feed's cards (newest first), whether the cards carry
    \* only a class that contains "homeCard" (not the class homeCard itself),
    \* how many cards are rendered, the page height, the current view
    feed, looseOnly, nVisible, pageH, view,
    \* collect_image_urls_from_home: its arguments and locals
    scroll_steps, pc, i, should_stop, last_h, home_n, base_n, card_idx,
    over_threshold_count, urls, result,
    \* observations of the run: clicks per card, sweeps started, scrolls done,
    \* the expired cards the current sweep reached, the count of cards of class
    \* homeCard and of all rendered cards at its start, and what has been seen
    \* so far (a sweep that ended half expired, a scroll that changed nothing)
    opened, sweeps, scrolls, sweepExpired, sweepVisible, sweepRendered,
    halfExpiredSeen, stopSeen, stuckScrollSeen,
    \* the card handles: whether no navigation and no scroll happened since
    \* base_cards (line 777) and since cards_now (line 783) were enumerated, and
    \* whether a handle was used that was enumerated before one
    base_fresh, now_fresh, staleUse

handleVars == <<base_fresh, now_fresh, staleUse>>

travVars == <<feed, looseOnly, nVisible, pageH, view, scroll_steps, pc, i, should_stop,
              last_h, home_n, base_n, card_idx, over_threshold_count, urls, result,
              opened, sweeps, scrolls, sweepExpired, sweepVisible, sweepRendered,
              halfExpiredSeen, stopSeen, stuckScrollSeen, handleVars>>

VARIABLES
    \* main, the acquisition step: the list to acquire, the output directory
    \* (file name -> size, Absent when there is no such file), and the locals
    items, files, stage, item_idx, existing_files, downloaded_count, skipped_count,
    \* download_with_fallback: the destination, the running byte count of the
    \* tier-1 stream, the tier it returned
    out_path, total, used,
    \* observations of the run: the requests issued, the names of the files the
    \* run wrote to, whether the tier-1 stream of the current download went over
    \* the ceiling, the response to the last request, the directory as it was
    \* when the step started, the destination file as it was when
    \* download_with_fallback was called
    requests, written, exceeded, resp, files0, before,
    \* the step run twice in a row: whether it is, the run in progress, what
    \* the remote side answers for each item (the same in both runs), and how
    \* many chunks of its stream the download in progress has read
    twice, run, remote, pos

acqVars == <<items, files, stage, item_idx, existing_files, downloaded_count,
             skipped_count, out_path, total, used, requests, written, exceeded, resp,
             files0, before, twice, run, remote, pos>>

VARIABLES
    \* the browser session of a run: where the run is, the driver (not yet
    \* created, open, or quit), whether the local debug_dir of
    \* login_and_get_cookies is bound
    spc, driver, debug_dir

sessVars == <<spc, driver, debug_dir>>

VARIABLES
    \* one call of human_time_to_dt and one of rewrite_width: the arguments,
    \* which of the two has returned, and what they returned
    arg_text, arg_now, arg_url, arg_width, returned, ret_dt, ret_url

VARIABLES
    \* one call of safe_click: how the element behaves, the position in the
    \* function, the click strategies tried so far, and what the call gave
    el, cpc, tried, click_ret

clickVars == <<el, cpc, tried, click_ret>>

VARIABLES
    \* one call of group_images_by_date: the page, the fallback date, and the
    \* date and URLs it gave
    arg_post, arg_fallback, ret_group

groupVars == <<arg_post, arg_fallback, ret_group>>

VARIABLES
    \* one call of safe_go_back: the back and close elements of the page in
    \* the order the selectors find them, how history.back(), driver.back() and
    \* the wait for the feed end, the position in the function, the element the
    \* loop is at, the elements clicked, the generic back calls made, and how
    \* the call ended
    candidates, env, gpc, gidx, clicks, backs, go_ret

backVars == <<candidates, env, gpc, gidx, clicks, backs, go_ret>>

\* the calls of the helper functions that are looked at on their own
helperVars == <<clickVars, groupVars, backVars>>

fnVars == <<arg_text, arg_now, arg_url, arg_width, returned, ret_dt, ret_url, helperVars>>

vars == <<travVars, acqVars, sessVars, fnVars>>

\* the session while main is inside its try block (lines 881-934)
SessIdle ==
    /\ spc = "try"
    /\ driver = "open"
    /\ debug_dir = TRUE

\* an element that is there and takes the ordinary click
PlainElement == [wait |-> "ready", click |-> "ok", js |-> "ok", chain |-> "ok"]

\* no call of safe_click is looked at
ClickIdle ==
    /\ el = PlainElement
    /\ cpc = "idle"
    /\ tried = <<>>
    /\ click_ret = "none"

\* no call of group_images_by_date is looked at
GroupIdle ==
    /\ arg_post = <<>>
    /\ arg_fallback = 0
    /\ ret_group = <<>>

\* a browser in which every call goes through
PlainBrowser == [history |-> "ok", driverback |-> "ok", wait |-> "ok"]

\* no call of safe_go_back is looked at
BackIdle ==
    /\ candidates = <<>>
    /\ env = PlainBrowser
    /\ gpc = "idle"
    /\ gidx = 1
    /\ clicks = <<>>
    /\ backs = <<>>
    /\ go_ret = "none"

HelperIdle == ClickIdle /\ GroupIdle /\ BackIdle

\* no call of the two functions is looked at
FnIdle ==
    /\ HelperIdle
    /\ arg_text = <<>>
    /\ arg_now = 0
    /\ arg_url = <<>>
    /\ arg_width = 0
    /\ returned = {}
    /\ ret_dt = <<>>
    /\ ret_url = <<>>

(***************************************************************************)
(* Bounds and inputs of the traversal.                                     *)
(***************************************************************************)
MaxCards == 2
MaxSteps == 2

\* LOOKBACK_HOURS, default "72"
lookback_hours == 72

\* dt.datetime.now() at the start of the traversal: 2025-02-10 12:00:00
NowT == ToSec(2025, 2, 10, 12, 0, 0)

Lbl_3h == <<"3", "ji", "kan", "mae">>
Lbl_5d == <<"5", " ", "nichi", "mae">>
Lbl_md == <<"2", "gatsu", "9", "nichi", " ", "(", ")">>
Lbl_kinou == <<"kinou", "nichi">>

Url_a == IMG_HOST_PREFIX \o <<"a">>
Url_b == IMG_HOST_PREFIX \o <<"b">>
Url_c == IMG_HOST_PREFIX \o <<"c">>
Raw_rel_a == Txt_ss \o Txt_host \o <<"/", "a">>
Raw_other == Txt_https \o Txt_ss \o <<"x", ".", "j", "p">> \o <<"/", "a">>
Raw_http_a == Txt_http \o Txt_ss \o Txt_host \o <<"/", "a">>
Raw_elsewhere == Txt_https \o Txt_ss \o <<"x", ".", "j", "p", "/">> \o Txt_host
Raw_amp == <<" ">> \o IMG_HOST_PREFIX \o <<"c", "?", "k", "=", "1">> \o Txt_amp \o <<"w", "=", "2", " ">>

\* detail pages: date regions, title, body text, the date text
\* extract_date_text_from_detail finds, and the image sources in page order
Post_A == [markup |-> <<>>, title |-> <<>>, body |-> <<>>, ddate |-> <<>>,
           imgs |-> <<Url_a, Raw_rel_a, Raw_other>>]
Post_B == [markup |-> <<>>, title |-> <<>>, body |-> <<>>, ddate |-> <<>>,
           imgs |-> <<Url_b, Url_a, Raw_http_a>>]
Post_C == [markup |-> <<Lbl_md>>, title |-> <<>>, body |-> <<>>, ddate |-> Lbl_md,
           imgs |-> <<Raw_amp, Raw_elsewhere>>]
Post_D == [markup |-> <<>>, title |-> <<>>, body |-> <<>>, ddate |-> <<>>,
           imgs |-> <<Url_c>>]

\* a card: its date label, its post, and how the browser behaves on it:
\*   "ok"        the click opens the post and the return to the feed works
\*   "clickfail" safe_click returns False
\*   "pageerr"   driver.page_source raises after the click
\*   "stuck"     the post opens but the feed does not come back
CardKinds ==
    { [label |-> Lbl_3h, post |-> Post_A, beh |-> "ok"],
      [label |-> Lbl_5d, post |-> Post_B, beh |-> "ok"],
      [label |-> <<>>, post |-> Post_C, beh |-> "ok"],
      [label |-> Lbl_kinou, post |-> Post_D, beh |-> "ok"],
      [label |-> Lbl_3h, post |-> Post_B, beh |-> "clickfail"],
      [label |-> Lbl_5d, post |-> Post_A, beh |-> "pageerr"],
      [label |-> Lbl_5d, post |-> Post_B, beh |-> "stuck"] }

Feeds == UNION { [1..n -> CardKinds] : n \in 0..MaxCards }

(***************************************************************************)
(* Helpers of the traversal.                                               *)
(***************************************************************************)
\* now - timedelta(hours=lookback_hours)
end_threshold == NowT - 3600 * lookback_hours

\* driver.find_elements(By.CSS_SELECTOR, "div.homeCard"): how many
FindHomeCards == IF view = "home" /\ ~looseOnly THEN nVisible ELSE 0
\* driver.find_elements(By.CSS_SELECTOR, "div[class*='homeCard']"): how many
FindLooseCards == IF view = "home" THEN nVisible ELSE 0
\* refetch_home_cards: the first selector that finds cards
refetch_home_cards == IF FindHomeCards > 0 THEN FindHomeCards ELSE FindLooseCards

\* extract_date_text_from_card
extract_date_text_from_card(card) == card.label
\* extract_date_text_from_detail
extract_date_text_from_detail(post) == post.ddate

\* line 793: the card's own label parses and is older than the threshold
IsOverThreshold(post_dt) == post_dt # None /\ post_dt[1] < end_threshold

\* lines 827-828: the triples of one post
RECURSIVE Triples(_, _, _)
Triples(ulist, d, idx) ==
    IF ulist = <<>> THEN <<>>
    ELSE <<<<Head(ulist), EndOfDay(d), <<d, idx>>>>>> \o Triples(Tail(ulist), d, idx)

\* lines 855-861: first-seen (timestamp, key) per URL, in order of first appearance
RECURSIVE DedupLastWins(_)
DedupLastWins(us) ==
    IF us = <<>> THEN <<>>
    ELSE LET rest == DedupLastWins(SubSeq(us, 1, Len(us) - 1))
             last == us[Len(us)]
         IN  IF \E k \in 1..Len(rest) : rest[k][1] = last[1]
             THEN [k \in 1..Len(rest) |-> IF rest[k][1] = last[1] THEN last ELSE rest[k]]
             ELSE Append(rest, last)
RECURSIVE DedupFrom(_, _)
DedupFrom(us, seen) ==
    IF us = <<>> THEN <<>>
    ELSE IF Head(us)[1] \in seen THEN DedupFrom(Tail(us), seen)
    ELSE <<Head(us)>> \o DedupFrom(Tail(us), seen \cup {Head(us)[1]})
Dedup(us) == DedupFrom(us, {})

(***************************************************************************)
(* collect_image_urls_from_home.                                           *)
(***************************************************************************)
\* what the claims observe: the labels of the inputs that lie before
\* now - lookback ("5日前" with a lookback of 72 hours)
ExpiredLabels == {Lbl_5d}
\* how many of the first n cards of the feed are expired
RenderedExpired(n) == Cardinality({k \in 1..n : feed[k].label \in ExpiredLabels})

TravInit ==
    /\ feed \in Feeds
    /\ looseOnly \in BOOLEAN
    /\ nVisible \in 0..Len(feed)
    /\ pageH = 1
    /\ view = "home"
    /\ scroll_steps \in 0..MaxSteps
    /\ pc = "loop"
    /\ i = 0
    /\ should_stop = FALSE
    /\ last_h = 0
    /\ home_n = 0
    /\ base_n = 0
    /\ card_idx = 0
    /\ over_threshold_count = 0
    /\ urls = <<>>
    /\ result = <<>>
    /\ opened = [k \in 1..Len(feed) |-> 0]
    /\ sweeps = 0
    /\ scrolls = 0
    /\ sweepExpired = 0
    /\ sweepVisible = 0
    /\ sweepRendered = 0
    /\ halfExpiredSeen = FALSE
    /\ stopSeen = FALSE
    /\ stuckScrollSeen = FALSE
    /\ base_fresh = FALSE
    /\ now_fresh = FALSE
    /\ staleUse = FALSE

\* line 752: the iteration budget is used up
BudgetSpentLate == i > scroll_steps
BudgetSpent == i >= scroll_steps

\* lines 752-779: the head of the scroll loop and the enumeration of the cards
LoopHead ==
    /\ pc = "loop"
    /\ IF BudgetSpent \/ should_stop
       THEN /\ pc' = "ret"
            /\ UNCHANGED <<home_n, base_n, card_idx, over_threshold_count, sweeps,
                           sweepExpired, sweepVisible, sweepRendered, base_fresh>>
       ELSE /\ pc' = "card"
            /\ home_n' = FindHomeCards
            /\ base_n' = refetch_home_cards
            /\ base_fresh' = TRUE
            /\ card_idx' = 0
            /\ over_threshold_count' = 0
            /\ sweeps' = sweeps + 1
            /\ sweepExpired' = 0
            /\ sweepVisible' = (IF view = "home" /\ ~looseOnly THEN nVisible ELSE 0)
            /\ sweepRendered' = (IF view = "home" THEN nVisible ELSE 0)
    /\ UNCHANGED <<acqVars, sessVars, fnVars>>
    /\ UNCHANGED <<feed, looseOnly, nVisible, pageH, view, scroll_steps, i, should_stop,
                   last_h, urls, result, opened, scrolls, halfExpiredSeen, stopSeen,
                   stuckScrollSeen, now_fresh, staleUse>>

\* safe_click on a card: whether the click went through
safe_click(card) == card.beh # "clickfail"
\* safe_go_back: the view it leaves
safe_go_back(card) == IF card.beh = "stuck" THEN "detail" ELSE "home"

\* lines 788-820 on each kind of card: the time parsed from the card's own
\* label, the time after the detail page was consulted, and the result of
\* group_images_by_date (the traversal's now is the same for every card)
CardFacts ==
    [c \in CardKinds |->
        LET post_dt == human_time_to_dt(extract_date_text_from_card(c), NowT)
            detail_dt == IF post_dt = None
                         THEN human_time_to_dt(extract_date_text_from_detail(c.post), NowT)
                         ELSE post_dt
        IN  [post_dt |-> post_dt,
             detail_dt |-> detail_dt,
             groups |-> IF detail_dt = None THEN <<0, <<>>>>
                        ELSE group_images_by_date(c.post, NowT, DateOf(detail_dt[1]))]]

\* lines 786-831: the per-card block on the card at card_idx, given the facts
\* of its kind: what it leaves in over_threshold_count, urls and view, and
\* whether it clicked the card
CardBlock(facts) ==
    LET home_card == feed[card_idx + 1]
        over == over_threshold_count + (IF IsOverThreshold(facts.post_dt) THEN 1 ELSE 0)
    IN  IF ~safe_click(home_card)
        THEN \* line 800: the card is skipped
             [over |-> over, clicked |-> FALSE, urls |-> urls, view |-> view]
        ELSE IF home_card.beh = "pageerr"
        THEN \* line 805 raises, line 833 catches
             [over |-> over, clicked |-> TRUE, urls |-> urls, view |-> "detail"]
        ELSE IF facts.detail_dt = None
        THEN \* lines 812-816: no date, the card is skipped
             [over |-> over, clicked |-> TRUE, urls |-> urls,
              view |-> safe_go_back(home_card)]
        ELSE [over |-> over, clicked |-> TRUE,
              urls |-> urls \o Triples(facts.groups[2], facts.groups[1], card_idx),
              view |-> safe_go_back(home_card)]

\* line 786: the handle the block works on is taken from cards_now, which
\* line 783 has just enumerated
base_card_fresh(cards_now_fresh, base_cards_fresh) == base_cards_fresh
home_card_fresh(cards_now_fresh, base_cards_fresh) == cards_now_fresh

\* lines 781-835: one pass of the for loop over the cards
ProcessCard ==
    /\ pc = "card"
    /\ IF card_idx >= base_n \/ card_idx >= refetch_home_cards
       THEN \* the for loop is over, or line 785 breaks out of it
            /\ pc' = "sweepend"
            /\ now_fresh' = TRUE
            /\ UNCHANGED <<card_idx, over_threshold_count, urls, opened, view, sweepExpired,
                           base_fresh, staleUse>>
       ELSE \E facts \in {CardFacts[feed[card_idx + 1]]} :
            \E block \in {CardBlock(facts)} :
            /\ pc' = "card"
            /\ card_idx' = card_idx + 1
            \* lines 788 and 798 use the handle; a click that goes through opens
            \* the post, and what follows leaves the handles behind
            /\ staleUse' = (staleUse \/ ~home_card_fresh(TRUE, base_fresh))
            /\ now_fresh' = ~block.clicked
            /\ base_fresh' = (base_fresh /\ ~block.clicked)
            /\ over_threshold_count' = block.over
            /\ urls' = block.urls
            /\ view' = block.view
            /\ opened' = [opened EXCEPT ![card_idx + 1] = @ + (IF block.clicked THEN 1 ELSE 0)]
            /\ sweepExpired' =
                   sweepExpired + (IF feed[card_idx + 1].label \in ExpiredLabels THEN 1 ELSE 0)
    /\ UNCHANGED <<acqVars, sessVars, fnVars>>
    /\ UNCHANGED <<feed, looseOnly, nVisible, pageH, scroll_steps, i, should_stop, last_h,
                   home_n, base_n, result, sweeps, scrolls, sweepVisible, sweepRendered,
                   halfExpiredSeen, stopSeen, stuckScrollSeen>>

\* line 839: the sweep found at least half of the cards expired
HalfOverStrict == home_n > 0 /\ 2 * over_threshold_count > home_n
HalfOver == home_n > 0 /\ 2 * over_threshold_count >= home_n

\* lines 837-842: the early stop
SweepEnd ==
    /\ pc = "sweepend"
    /\ IF HalfOver
       THEN /\ should_stop' = TRUE
            /\ i' = i + 1
            /\ pc' = "loop"
       ELSE /\ pc' = "scroll"
            /\ UNCHANGED <<should_stop, i>>
    /\ halfExpiredSeen' = (halfExpiredSeen \/ 2 * RenderedExpired(sweepRendered) >= sweepRendered)
    /\ UNCHANGED handleVars
    /\ stopSeen' = (stopSeen \/ (sweepVisible > 0 /\ 2 * sweepExpired >= sweepVisible))
    /\ UNCHANGED <<acqVars, sessVars, fnVars>>
    /\ UNCHANGED <<feed, looseOnly, nVisible, pageH, view, scroll_steps, last_h, home_n,
                   base_n, card_idx, over_threshold_count, urls, result, opened, sweeps,
                   scrolls, sweepExpired, sweepVisible, sweepRendered, stuckScrollSeen>>

\* lines 844-853: scroll to the bottom, wait, compare the page height
Scroll ==
    /\ pc = "scroll"
    /\ \E grow \in 0..(IF view = "home" THEN Len(feed) - nVisible ELSE 0) :
           /\ nVisible' = nVisible + grow
           /\ pageH' = pageH + (IF grow > 0 THEN 1 ELSE 0)
    /\ scrolls' = scrolls + 1
    /\ base_fresh' = FALSE
    /\ now_fresh' = FALSE
    /\ UNCHANGED staleUse
    /\ stuckScrollSeen' = (stuckScrollSeen \/ pageH' = pageH)
    /\ IF pageH' = last_h
       THEN /\ pc' = "ret"
            /\ UNCHANGED <<last_h, i>>
       ELSE /\ last_h' = pageH'
            /\ i' = i + 1
            /\ pc' = "loop"
    /\ UNCHANGED <<acqVars, sessVars, fnVars>>
    /\ UNCHANGED <<feed, looseOnly, view, scroll_steps, should_stop, home_n, base_n,
                   card_idx, over_threshold_count, urls, result, opened, sweeps,
                   sweepExpired, sweepVisible, sweepRendered, halfExpiredSeen, stopSeen>>

\* lines 855-861: the deduplicated list is returned
Return ==
    /\ pc = "ret"
    /\ result' = Dedup(urls)
    /\ pc' = "done"
    /\ UNCHANGED handleVars
    /\ UNCHANGED <<acqVars, sessVars, fnVars>>
    /\ UNCHANGED <<feed, looseOnly, nVisible, pageH, view, scroll_steps, i, should_stop,
                   last_h, home_n, base_n, card_idx, over_threshold_count, urls, opened,
                   sweeps, scrolls, sweepExpired, sweepVisible, sweepRendered,
                   halfExpiredSeen, stopSeen, stuckScrollSeen>>

(***************************************************************************)
(* The acquisition step of main, with download_with_fallback.              *)
(***************************************************************************)
MaxItems == 2
MaxChunk == 2
MaxBody == 1
\* MAX_BYTES_FOR_WIDTH0 (default 40000000), scaled down
max_bytes_for_width0 == 2

Url_plus == IMG_HOST_PREFIX \o <<"x", "+", "y">>
Url_pct == IMG_HOST_PREFIX \o <<"x", "%", "2", "0", "y", "?", "w", "=", "1", "/", "2">>

\* f"{d.isoformat()}_{card_idx}" as the pair <<d, card_idx>>
Key0 == <<DateOf(NowT), 0>>
Key1 == <<DateOf(NowT), 1>>

\* triples (url, approx_dt, diary_id) as the traversal returns them
ItemKinds ==
    { <<Url_a, EndOfDay(DateOf(NowT)), Key0>>,
      <<Url_b, EndOfDay(DateOf(NowT)), Key1>>,
      <<Raw_http_a, EndOfDay(DateOf(NowT)), Key1>>,
      <<Url_plus, EndOfDay(DateOf(NowT)), Key0>>,
      <<Url_pct, EndOfDay(DateOf(NowT)), Key0>>,
      <<IMG_HOST_PREFIX, EndOfDay(DateOf(NowT)), Key0>> }

\* the lists the traversal can return: no URL twice
ItemLists ==
    { l \in UNION { [1..n -> ItemKinds] : n \in 0..MaxItems } :
        \A k, j \in 1..Len(l) : k # j => l[k][1] # l[j][1] }

\* the prefix of s before the first c (s when there is none)
BeforeChar(s, c) ==
    LET ks == {k \in 1..Len(s) : s[k] = c}
    IN  IF ks = {} THEN s ELSE Slice(s, 1, (CHOOSE k \in ks : \A j \in ks : k <= j) - 1)
\* the part of s after the last c (s when there is none)
AfterLastChar(s, c) ==
    LET ks == {k \in 1..Len(s) : s[k] = c}
    IN  IF ks = {} THEN s ELSE Drop(s, CHOOSE k \in ks : \A j \in ks : k >= j)

\* the characters of the modelled texts that urllib escapes, with their escapes
Escapes ==
    { <<" ", <<"%", "2", "0">>>>, <<"+", <<"%", "2", "B">>>>, <<"/", <<"%", "2", "F">>>>,
      <<"=", <<"%", "3", "D">>>>, <<"&", <<"%", "2", "6">>>>, <<"%", <<"%", "2", "5">>>>,
      <<"?", <<"%", "3", "F">>>>, <<"#", <<"%", "2", "3">>>> }

\* urllib.parse.unquote
RECURSIVE unquote(_)
unquote(u) ==
    IF u = <<>> THEN <<>>
    ELSE IF \E e \in Escapes : StartsWith(u, e[2])
    THEN <<(CHOOSE e \in Escapes : StartsWith(u, e[2]))[1]>> \o unquote(Drop(u, 3))
    ELSE <<Head(u)>> \o unquote(Tail(u))

\* urllib.parse.quote_plus
RECURSIVE quote_plus(_)
quote_plus(t) ==
    IF t = <<>> THEN <<>>
    ELSE IF Head(t) = " " THEN <<"+">> \o quote_plus(Tail(t))
    ELSE IF \E e \in Escapes : e[1] = Head(t)
    THEN (CHOOSE e \in Escapes : e[1] = Head(t))[2] \o quote_plus(Tail(t))
    ELSE <<Head(t)>> \o quote_plus(Tail(t))

\* str(n) of a non-negative int
RECURSIVE str(_)
str(n) == IF n < 10 THEN <<DigitChars[n + 1]>> ELSE str(n \div 10) \o <<DigitChars[(n % 10) + 1]>>

\* the part of s after the first c (empty when there is none)
AfterChar(s, c) == Drop(s, Len(BeforeChar(s, c)) + 1)

\* str.split(c)
RECURSIVE Split(_, _)
Split(s, c) ==
    IF \A k \in 1..Len(s) : s[k] # c THEN <<s>>
    ELSE <<BeforeChar(s, c)>> \o Split(AfterChar(s, c), c)

\* the `+` of a query string is a space, then unquote
UnquotePlus(t) == unquote([k \in 1..Len(t) |-> IF t[k] = "+" THEN " " ELSE t[k]])

\* a parsed query: <<name, values>> entries in order of first appearance of the
\* name (a dict of lists). The entry of a name, and the dict with a value added
HasName(d, name) == \E k \in 1..Len(d) : d[k][1] = name
ValuesOf(d, name) == IF HasName(d, name) THEN d[CHOOSE k \in 1..Len(d) : d[k][1] = name][2] ELSE <<>>
AddValue(d, name, value) ==
    IF HasName(d, name)
    THEN [k \in 1..Len(d) |-> IF d[k][1] = name THEN <<name, Append(d[k][2], value)>> ELSE d[k]]
    ELSE Append(d, <<name, <<value>>>>)
\* d[name] = values
SetValues(d, name, values) ==
    IF HasName(d, name)
    THEN [k \in 1..Len(d) |-> IF d[k][1] = name THEN <<name, values>> ELSE d[k]]
    ELSE Append(d, <<name, values>>)

\* urllib.parse.parse_qs(query, keep_blank_values): a piece without `=` or
\* with nothing after it is dropped unless keep_blank_values
RECURSIVE ParsePieces(_, _, _)
ParsePieces(pieces, keep_blank_values, d) ==
    IF pieces = <<>> THEN d
    ELSE LET piece == Head(pieces)
             name == UnquotePlus(BeforeChar(piece, "="))
             value == UnquotePlus(AfterChar(piece, "="))
         IN  IF piece = <<>> \/ (value = <<>> /\ ~keep_blank_values)
             THEN ParsePieces(Tail(pieces), keep_blank_values, d)
             ELSE ParsePieces(Tail(pieces), keep_blank_values, AddValue(d, name, value))
parse_qs(query, keep_blank_values) == ParsePieces(Split(query, "&"), keep_blank_values, <<>>)

\* urllib.parse.urlencode(d, doseq=True): name=value for every value, joined by &
RECURSIVE EncodeValues(_, _)
EncodeValues(name, values) ==
    IF values = <<>> THEN <<>>
    ELSE <<quote_plus(name) \o <<"=">> \o quote_plus(Head(values))>>
         \o EncodeValues(name, Tail(values))
RECURSIVE EncodePairs(_)
EncodePairs(d) ==
    IF d = <<>> THEN <<>> ELSE EncodeValues(d[1][1], d[1][2]) \o EncodePairs(Tail(d))
RECURSIVE Join(_, _)
Join(parts, c) ==
    IF parts = <<>> THEN <<>>
    ELSE IF Len(parts) = 1 THEN parts[1]
    ELSE parts[1] \o <<c>> \o Join(Tail(parts), c)
urlencode(d) == Join(EncodePairs(d), "&")

\* urlparse(url): the query and the fragment; what stands before them is put
\* back as it is by urlunparse
UrlFragment(url) == AfterChar(url, "#")
UrlQuery(url) == AfterChar(BeforeChar(url, "#"), "?")
UrlBeforeQuery(url) == BeforeChar(BeforeChar(url, "#"), "?")

\* urlparse(url).path.split('/')[-1]: the URL without fragment, query and
\* parameters, after its last slash (the URL has a path: it passed line 901)
LastPathSegment(url) ==
    BeforeChar(AfterLastChar(BeforeChar(BeforeChar(url, "#"), "?"), "/"), ";")

\* extract_original_filename
extract_original_filename(url) ==
    LET decoded == unquote(LastPathSegment(url))
    IN  [k \in 1..Len(decoded) |-> IF decoded[k] \in {" ", "+"} THEN "_" ELSE decoded[k]]

\* line 913: f"{diary_id}_{original_filename}" as the pair of its parts (the
\* diary_id of a traversal is a date and a number, so the text splits one way)
FinalFilename(item) == <<item[3], extract_original_filename(item[1])>>

\* line 901: the item is acquired at all
TrustedUrlAny(url) == TRUE
TrustedUrl(url) == StartsWith(url, IMG_HOST_PREFIX)

\* the file names the modelled lists can produce
AllNames ==
    { FinalFilename(it) : it \in {x \in ItemKinds : TrustedUrl(x[1])
                                                     /\ extract_original_filename(x[1]) # <<>>} }

Txt_width == <<"w", "i", "d", "t", "h">>

\* rewrite_width(url, width_value)
rewrite_width(url, width_value) ==
    LET q == SetValues(parse_qs(UrlQuery(url), FALSE), Txt_width, <<str(width_value)>>)
        new_query == urlencode(q)
    IN  UrlBeforeQuery(url) \o <<"?">> \o new_query
        \o (IF UrlFragment(url) # <<>> THEN <<"#">> \o UrlFragment(url) ELSE <<>>)

\* lines 901-913, 650 and 670 on each kind of item: whether it passes line 901,
\* the name line 904 extracts, the name line 913 builds, the two URLs asked for
ItemFacts ==
    [item \in ItemKinds |->
        [trusted |-> TrustedUrl(item[1]),
         original_filename |-> extract_original_filename(item[1]),
         final_filename |-> FinalFilename(item),
         url0 |-> rewrite_width(item[1], 0),
         url1080 |-> rewrite_width(item[1], 1080)]]
\* the URLs asked for the k-th item of the list
Url0(k) == ItemFacts[items[k]].url0
Url1080(k) == ItemFacts[items[k]].url1080

\* what a GET can come back with: a status that is 200 or not and a
\* Content-Type that starts with image/ or not, or no response (raised)
Responses ==
    { [raised |-> FALSE, status_ok |-> so, is_image |-> im] : so, im \in BOOLEAN }
    \cup { [raised |-> TRUE, status_ok |-> FALSE, is_image |-> FALSE] }
NoResponse == [raised |-> TRUE, status_ok |-> FALSE, is_image |-> FALSE]

AcqIdle ==
    /\ items = <<>>
    /\ files = [n \in AllNames |-> None]
    /\ stage = "idle"
    /\ item_idx = 0
    /\ existing_files = {}
    /\ downloaded_count = 0
    /\ skipped_count = 0
    /\ out_path = <<>>
    /\ total = 0
    /\ used = "none"
    /\ requests = {}
    /\ written = {}
    /\ exceeded = FALSE
    /\ resp = NoResponse
    /\ files0 = files
    /\ before = None
    /\ twice = FALSE
    /\ run = 1
    /\ remote = <<>>
    /\ pos = 1

\* the traversal is over when the acquisition step runs
TravIdle ==
    /\ feed = <<>>
    /\ looseOnly = FALSE
    /\ nVisible = 0
    /\ pageH = 1
    /\ view = "home"
    /\ scroll_steps = 0
    /\ pc = "done"
    /\ i = 0
    /\ should_stop = FALSE
    /\ last_h = 0
    /\ home_n = 0
    /\ base_n = 0
    /\ card_idx = 0
    /\ over_threshold_count = 0
    /\ urls = <<>>
    /\ result = <<>>
    /\ opened = <<>>
    /\ sweeps = 0
    /\ scrolls = 0
    /\ sweepExpired = 0
    /\ sweepVisible = 0
    /\ sweepRendered = 0
    /\ halfExpiredSeen = FALSE
    /\ stopSeen = FALSE
    /\ stuckScrollSeen = FALSE
    /\ base_fresh = FALSE
    /\ now_fresh = FALSE
    /\ staleUse = FALSE

\* line 882 has returned items; out_root holds some files of an earlier run
AcqInputs ==
    /\ TravIdle
    /\ FnIdle
    /\ items \in ItemLists
    /\ \E present \in SUBSET AllNames :
           files = [n \in AllNames |-> IF n \in present THEN Some(9) ELSE None]
    /\ item_idx = 0
    /\ existing_files = {}
    /\ downloaded_count = 0
    /\ skipped_count = 0
    /\ out_path = <<>>
    /\ total = 0
    /\ used = "none"
    /\ requests = {}
    /\ written = {}
    /\ exceeded = FALSE
    /\ resp = NoResponse
    /\ files0 = files
    /\ before = None
    /\ run = 1
    /\ pos = 1

\* line 890 is reached inside the try block of main
AcqStart == AcqInputs /\ SessIdle /\ stage = "scan"

\* the step is run once, whatever the remote side answers
AcqInit == AcqStart /\ twice = FALSE /\ remote = <<>>

\* a stream of one-byte chunks that goes over the ceiling
Oversize == [k \in 1..(max_bytes_for_width0 + 1) |-> 1]
Accepted == [raised |-> FALSE, status_ok |-> TRUE, is_image |-> TRUE]
NotAnImage == [raised |-> FALSE, status_ok |-> TRUE, is_image |-> FALSE]
NotFound == [raised |-> FALSE, status_ok |-> FALSE, is_image |-> FALSE]
\* what the remote side answers for one URL: the tier-1 response, the chunks of
\* its body, whether the stream breaks off after them, the tier-2 response and
\* the size of its body
Answer(r0, stream, broken, r1, body) ==
    [r0 |-> r0, stream |-> stream, broken |-> broken, r1 |-> r1, body |-> body]
RemoteKinds ==
    { Answer(NoResponse, <<>>, FALSE, NoResponse, 0),
      Answer(NotAnImage, <<>>, FALSE, NotFound, 0),
      Answer(Accepted, <<1>>, FALSE, NoResponse, 0),
      Answer(Accepted, <<0, 1>>, TRUE, NoResponse, 0),
      Answer(Accepted, <<>>, FALSE, NotFound, 0),
      Answer(Accepted, Oversize, FALSE, NotFound, 0) }
    \cup { Answer(NotFound, <<>>, FALSE, Accepted, b) : b \in 0..MaxBody }
    \cup { Answer(Accepted, Oversize, FALSE, Accepted, b) : b \in 0..MaxBody }

\* the lists of the two runs: images of one post, two of them with one name
RerunLists ==
    { l \in ItemLists : \A k \in 1..Len(l) : l[k][1] \in {Url_a, Url_plus, Url_pct} }

\* the step is run twice in a row on the same list and the same remote side
RerunInit ==
    /\ AcqStart
    /\ twice = TRUE
    /\ items \in RerunLists
    /\ remote \in [1..Len(items) -> RemoteKinds]

\* the second of the two runs is in progress
Replaying == twice /\ run = 2

\* the remote side of the second run is the remote side of the first; a single
\* run is given any answer
Answers(field, v) == twice => remote[item_idx][field] = v
NextChunk(n) == twice => (pos <= Len(remote[item_idx].stream) /\ remote[item_idx].stream[pos] = n)
EndOfStream(broken) ==
    twice => (pos > Len(remote[item_idx].stream) /\ remote[item_idx].broken = broken)

\* lines 890-898: the names in out_root seed the skip set
ScanNothing == {}
ListFiles == {n \in AllNames : files[n] # None}
Scan ==
    /\ stage = "scan"
    /\ existing_files' = ListFiles
    /\ downloaded_count' = 0
    /\ skipped_count' = 0
    /\ item_idx' = 1
    /\ stage' = "item"
    /\ UNCHANGED <<items, files, out_path, total, used, requests, written, exceeded, resp>>
    /\ UNCHANGED <<files0, before, twice, run, remote, pos>>
    /\ UNCHANGED <<travVars, sessVars, fnVars>>

\* line 917: the name is in the skip set
NeverSeen(name) == FALSE
SeenBefore(name) == name \in existing_files

\* lines 900-924: the next item is filtered, skipped or handed to the download;
\* line 934 when the list is through
NextItem ==
    /\ stage = "item"
    /\ IF item_idx > Len(items)
       THEN /\ stage' = "finished"
            /\ UNCHANGED <<item_idx, skipped_count, out_path>>
       ELSE \E it \in {ItemFacts[items[item_idx]]} :
                IF ~it.trusted \/ it.original_filename = <<>>
                THEN /\ item_idx' = item_idx + 1
                     /\ UNCHANGED <<stage, skipped_count, out_path>>
                ELSE IF SeenBefore(it.final_filename)
                THEN /\ skipped_count' = skipped_count + 1
                     /\ item_idx' = item_idx + 1
                     /\ UNCHANGED <<stage, out_path>>
                ELSE /\ out_path' = it.final_filename
                     /\ stage' = "get0"
                     /\ UNCHANGED <<item_idx, skipped_count>>
    /\ before' = IF stage' = "get0" THEN files[out_path'] ELSE before
    /\ pos' = 1
    /\ UNCHANGED <<files0, twice, run, remote>>
    /\ total' = 0
    /\ exceeded' = FALSE
    /\ used' = "none"
    /\ UNCHANGED <<items, files, existing_files, downloaded_count, requests, written, resp>>
    /\ UNCHANGED <<travVars, sessVars, fnVars>>

\* lines 650-656: the tier-1 request; an accepted response opens the file
Get0 ==
    /\ stage = "get0"
    /\ requests' = requests \cup {Url0(item_idx)}
    /\ \E r0 \in Responses :
           /\ Answers("r0", r0)
           /\ resp' = r0
           /\ IF r0.raised
              THEN /\ stage' = "dlraise"
                   /\ UNCHANGED <<files, written>>
              ELSE IF r0.status_ok /\ r0.is_image
              THEN /\ files' = [files EXCEPT ![out_path] = Some(0)]
                   /\ written' = written \cup {out_path}
                   /\ stage' = "stream"
              ELSE /\ stage' = "get1"
                   /\ UNCHANGED <<files, written>>
    /\ UNCHANGED <<items, item_idx, existing_files, downloaded_count, skipped_count,
                   out_path, total, used, exceeded>>
    /\ UNCHANGED <<files0, before, twice, run, remote, pos>>
    /\ UNCHANGED <<travVars, sessVars, fnVars>>

\* lines 658-665 on a chunk of n bytes, with `size` bytes in the file: the new
\* byte count, the file (None once unlinked), and whether the loop breaks
OnChunkWriteFirst(n, size) ==
    IF n = 0 THEN [total |-> total, file |-> Some(size), over |-> FALSE]
    ELSE IF total + n > max_bytes_for_width0
    THEN [total |-> total + n, file |-> Some(size + n), over |-> TRUE]
    ELSE [total |-> total + n, file |-> Some(size + n), over |-> FALSE]
OnChunk(n, size) ==
    IF n = 0 THEN [total |-> total, file |-> Some(size), over |-> FALSE]
    ELSE IF total + n > max_bytes_for_width0
    THEN [total |-> total + n, file |-> None, over |-> TRUE]
    ELSE [total |-> total + n, file |-> Some(size + n), over |-> FALSE]

\* lines 657-667: one chunk of the tier-1 stream
StreamChunk ==
    /\ stage = "stream"
    /\ \E n \in 0..MaxChunk :
           LET c == OnChunk(n, files[out_path][1])
           IN  /\ NextChunk(n)
               /\ pos' = IF twice THEN pos + 1 ELSE pos
               /\ total' = c.total
               /\ files' = [files EXCEPT ![out_path] = c.file]
               /\ exceeded' = (exceeded \/ c.over)
               /\ stage' = IF ~c.over THEN "stream"
                           ELSE IF c.file # None /\ c.file[1] > 0 THEN "dlret" ELSE "get1"
               /\ used' = IF c.over /\ c.file # None /\ c.file[1] > 0 THEN "width=0" ELSE used
    /\ UNCHANGED <<items, item_idx, existing_files, downloaded_count, skipped_count,
                   out_path, requests, written, resp>>
    /\ UNCHANGED <<files0, before, twice, run, remote>>
    /\ UNCHANGED <<travVars, sessVars, fnVars>>

\* lines 657, 666-667: the stream ends; a non-empty file is the tier-1 result
StreamEnd ==
    /\ stage = "stream"
    /\ EndOfStream(FALSE)
    /\ IF files[out_path] # None /\ files[out_path][1] > 0
       THEN /\ used' = "width=0"
            /\ stage' = "dlret"
       ELSE /\ stage' = "get1"
            /\ UNCHANGED used
    /\ UNCHANGED <<items, files, item_idx, existing_files, downloaded_count, skipped_count,
                   out_path, total, requests, written, exceeded, resp>>
    /\ UNCHANGED <<files0, before, twice, run, remote, pos>>
    /\ UNCHANGED <<travVars, sessVars, fnVars>>

\* line 657: iter_content raises (the connection broke)
StreamError ==
    /\ stage = "stream"
    /\ EndOfStream(TRUE)
    /\ stage' = "dlraise"
    /\ UNCHANGED <<items, files, item_idx, existing_files, downloaded_count, skipped_count,
                   out_path, total, used, requests, written, exceeded, resp>>
    /\ UNCHANGED <<files0, before, twice, run, remote, pos>>
    /\ UNCHANGED <<travVars, sessVars, fnVars>>

\* lines 669-676: the tier-2 request, fetched in one piece
Get1 ==
    /\ stage = "get1"
    /\ requests' = requests \cup {Url1080(item_idx)}
    /\ \E r1 \in Responses, body \in 0..MaxBody :
           /\ Answers("r1", r1)
           /\ Answers("body", body)
           /\ resp' = r1
           /\ IF ~r1.raised /\ r1.status_ok /\ r1.is_image
              THEN /\ files' = [files EXCEPT ![out_path] = Some(body)]
                   /\ written' = written \cup {out_path}
                   /\ used' = "width=1080"
                   /\ stage' = "dlret"
              ELSE /\ stage' = "dlraise"
                   /\ UNCHANGED <<files, written, used>>
    /\ UNCHANGED <<items, item_idx, existing_files, downloaded_count, skipped_count,
                   out_path, total, exceeded>>
    /\ UNCHANGED <<files0, before, twice, run, remote, pos>>
    /\ UNCHANGED <<travVars, sessVars, fnVars>>

\* lines 927-930: download_with_fallback returned a tier
Downloaded ==
    /\ stage = "dlret"
    /\ existing_files' = existing_files \cup {out_path}
    /\ downloaded_count' = downloaded_count + 1
    /\ item_idx' = item_idx + 1
    /\ stage' = "item"
    /\ UNCHANGED <<items, files, skipped_count, out_path, total, used, requests, written,
                   exceeded, resp>>
    /\ UNCHANGED <<files0, before, twice, run, remote, pos>>
    /\ UNCHANGED <<travVars, sessVars, fnVars>>

\* lines 931-932: download_with_fallback raised; the item is logged as failed
FailedAborts ==
    /\ stage = "dlraise"
    /\ stage' = "aborted"
    /\ UNCHANGED <<items, files, item_idx, existing_files, downloaded_count, skipped_count,
                   out_path, total, used, requests, written, exceeded, resp>>
    /\ UNCHANGED <<files0, before, twice, run, remote, pos>>
    /\ UNCHANGED <<travVars, sessVars, fnVars>>
Failed ==
    /\ stage = "dlraise"
    /\ item_idx' = item_idx + 1
    /\ stage' = "item"
    /\ UNCHANGED <<items, files, existing_files, downloaded_count, skipped_count, out_path,
                   total, used, requests, written, exceeded, resp>>
    /\ UNCHANGED <<files0, before, twice, run, remote, pos>>
    /\ UNCHANGED <<travVars, sessVars, fnVars>>

Init == TravInit /\ AcqIdle /\ SessIdle /\ FnIdle
Next == LoopHead \/ ProcessCard \/ SweepEnd \/ Scroll \/ Return
Spec == Init /\ [][Next]_vars
\* the traversal is sequential code that runs on: every enabled step is taken
FairSpec == Spec /\ WF_vars(Next)

AcqNext ==
    Scan \/ NextItem \/ Get0 \/ StreamChunk \/ StreamEnd \/ StreamError \/ Get1
    \/ Downloaded \/ Failed
AcqSpec == AcqInit /\ [][AcqNext]_vars

(***************************************************************************)
(* The browser session: login_and_get_cookies and the try/finally of main. *)
(***************************************************************************)
\* main at line 879, before the driver exists
SessionInit ==
    /\ AcqInputs
    /\ stage = "idle"
    /\ twice = FALSE
    /\ remote = <<>>
    /\ spc = "setup"
    /\ driver = "none"
    /\ debug_dir = FALSE

\* an exception leaves the function, and with it the process
Propagate ==
    /\ spc' = "exit"
    /\ UNCHANGED <<driver, debug_dir>>
\* driver.quit() and the raise that follows it
QuitAndRaise ==
    /\ driver' = "quit"
    /\ spc' = "exit"
    /\ UNCHANGED debug_dir

\* line 286: setup_driver creates the driver, or raises
SetupDriver ==
    /\ spc = "setup"
    /\ \E ok \in BOOLEAN :
           IF ok THEN driver' = "open" /\ spc' = "load" ELSE driver' = "none" /\ spc' = "exit"
    /\ UNCHANGED debug_dir
    /\ UNCHANGED <<travVars, acqVars, fnVars>>

\* lines 291-311: the page load. driver.get and wait.until (lines 292-296) run
\* before line 302 binds debug_dir, the screenshot and the DOM read after it
LoadPage ==
    /\ spc = "load"
    /\ \E outcome \in {"ok", "timeout at 292-296", "timeout at 304-308", "other exception"} :
           IF outcome = "ok"
           THEN debug_dir' = TRUE /\ spc' = "form" /\ UNCHANGED driver
           ELSE IF outcome = "timeout at 292-296"
           THEN spc' = "on_timeout" /\ UNCHANGED <<driver, debug_dir>>
           ELSE IF outcome = "timeout at 304-308"
           THEN debug_dir' = TRUE /\ spc' = "on_timeout" /\ UNCHANGED driver
           ELSE Propagate
    /\ UNCHANGED <<travVars, acqVars, fnVars>>

\* lines 313-317: except TimeoutException. Line 315 reads debug_dir
\* (UnboundLocalError when it is not bound) and takes a screenshot, which can
\* raise; line 316 quits the driver
OnTimeout ==
    /\ spc = "on_timeout"
    /\ IF ~debug_dir
       THEN Propagate
       ELSE \E screenshot_ok \in BOOLEAN : IF screenshot_ok THEN QuitAndRaise ELSE Propagate
    /\ UNCHANGED <<travVars, acqVars, fnVars>>

\* lines 329-539: the login form is filled in, or the try block of lines
\* 353-539 raises, or a call outside it raises something that is not caught
LoginForm ==
    /\ spc = "form"
    /\ \E outcome \in {"ok", "no form", "other exception"} :
           IF outcome = "ok" THEN spc' = "home" /\ UNCHANGED <<driver, debug_dir>>
           ELSE IF outcome = "no form" THEN spc' = "on_noform" /\ UNCHANGED <<driver, debug_dir>>
           ELSE Propagate
    /\ UNCHANGED <<travVars, acqVars, fnVars>>

\* lines 541-547: except Exception. Lines 543-545 take a screenshot and dump
\* the page, which can raise; line 546 quits the driver
OnNoForm ==
    /\ spc = "on_noform"
    /\ \E dump_ok \in BOOLEAN : IF dump_ok THEN QuitAndRaise ELSE Propagate
    /\ UNCHANGED <<travVars, acqVars, fnVars>>

\* lines 552-557: the navigation to the home page
GoHome ==
    /\ spc = "home"
    /\ \E outcome \in {"ok", "timeout", "other exception"} :
           IF outcome = "ok" THEN spc' = "cookies" /\ UNCHANGED <<driver, debug_dir>>
           ELSE IF outcome = "timeout" THEN QuitAndRaise
           ELSE Propagate
    /\ UNCHANGED <<travVars, acqVars, fnVars>>

\* lines 560-569: the cookies and the user agent are read from the driver
Cookies ==
    /\ spc = "cookies"
    /\ \E ok \in BOOLEAN :
           IF ok THEN spc' = "try" /\ UNCHANGED <<driver, debug_dir>> ELSE Propagate
    /\ UNCHANGED <<travVars, acqVars, fnVars>>

\* lines 881-888: collect_image_urls_from_home returns the list, or an
\* exception leaves the try block
Collect ==
    /\ spc = "try"
    /\ stage = "idle"
    /\ \E ok \in BOOLEAN :
           IF ok THEN stage' = "scan" /\ UNCHANGED spc
           ELSE spc' = "finally" /\ UNCHANGED stage
    /\ UNCHANGED <<driver, debug_dir>>
    /\ UNCHANGED <<items, files, item_idx, existing_files, downloaded_count, skipped_count,
                   out_path, total, used, requests, written, exceeded, resp, files0,
                   before, twice, run, remote, pos>>
    /\ UNCHANGED <<travVars, fnVars>>

\* lines 936-937: finally, after the summary or on the way out of an exception
Finally ==
    /\ spc = "finally" \/ (spc = "try" /\ stage = "finished")
    /\ driver' = "quit"
    /\ spc' = "exit"
    /\ UNCHANGED debug_dir
    /\ UNCHANGED <<travVars, acqVars, fnVars>>

SessionNext ==
    SetupDriver \/ LoadPage \/ OnTimeout \/ LoginForm \/ OnNoForm \/ GoHome \/ Cookies
    \/ Collect \/ AcqNext \/ Finally
SessionSpec == SessionInit /\ [][SessionNext]_vars

(***************************************************************************)
(* rewrite_width on its own: one call on a URL with a query.               *)
(***************************************************************************)
MaxParams == 2

\* query parameters as they stand in a URL: plain, repeated name, empty value,
\* a width, an escaped value
ParamKinds ==
    { <<"k", "=", "1">>, <<"k", "=", "2">>, <<"k", "=">>,
      <<"w", "i", "d", "t", "h", "=", "5">>, <<"a", "=", "1", "+", "%", "2", "F">> }
\* the queries of up to MaxParams parameters
Queries == { Join(ps, "&") : ps \in UNION { [1..n -> ParamKinds] : n \in 0..MaxParams } }
\* an image URL with each of the queries
RewriteUrls == { IF q = <<>> THEN Url_a ELSE Url_a \o <<"?">> \o q : q \in Queries }
\* the widths download_with_fallback asks for (lines 650 and 670)
Widths == {0, 1080}

RewriteInit ==
    /\ TravIdle
    /\ HelperIdle
    /\ AcqIdle
    /\ SessIdle
    /\ arg_text = <<>>
    /\ arg_now = 0
    /\ arg_url \in RewriteUrls
    /\ arg_width \in Widths
    /\ returned = {}
    /\ ret_dt = <<>>
    /\ ret_url = <<>>

\* rewrite_width(arg_url, arg_width) returns
CallRewrite ==
    /\ "rewrite_width" \notin returned
    /\ ret_url' = rewrite_width(arg_url, arg_width)
    /\ returned' = returned \cup {"rewrite_width"}
    /\ UNCHANGED <<arg_text, arg_now, arg_url, arg_width, ret_dt>>
    /\ UNCHANGED helperVars
    /\ UNCHANGED <<travVars, acqVars, sessVars>>

RewriteSpec == RewriteInit /\ [][CallRewrite]_vars

(***************************************************************************)
(* human_time_to_dt on its own: one call on a label and a reference time.  *)
(***************************************************************************)
MaxN == 12

Unit_min == <<"fun", "mae">>
Unit_hour == <<"ji", "kan", "mae">>
Unit_day == <<"nichi", "mae">>
Units == {Unit_min, Unit_hour, Unit_day}
\* between the number and the unit: nothing, or a space
Gaps == {<<>>, <<" ">>}
\* after the day: nothing, or a weekday in brackets
Tails == {<<>>, <<" ", "(", ")">>}
Ns == 0..MaxN
Months == 1..13
Days == {1, 28, 29, 30, 31, 32}

\* "N分前", "N時間前", "N日前"
RelLabel(n, gap, unit) == str(n) \o gap \o unit
\* "M月D日"
MDLabel(m, d, tail) == str(m) \o <<"gatsu">> \o str(d) \o <<"nichi">> \o tail
\* "YYYY年M月D日H時m分s秒"
FullLabel(y, m, d, h, mi, sec) ==
    str(y) \o <<"nen">> \o str(m) \o <<"gatsu">> \o str(d) \o <<"nichi">>
    \o str(h) \o <<"ji">> \o str(mi) \o <<"fun">> \o str(sec) \o <<"byou">>

RelLabels == { RelLabel(n, g, u) : n \in Ns, g \in Gaps, u \in Units }
MDLabels == { MDLabel(m, d, tl) : m \in Months, d \in Days, tl \in Tails }
\* the dates and times of day of the full-form labels
FullDates == { <<2024, 2, 29>>, <<2024, 9, 29>>, <<2025, 1, 5>>, <<2025, 12, 31>> }
FullTimes == { <<0, 0, 0>>, <<9, 5, 7>>, <<23, 59, 59>> }
FullLabels ==
    { FullLabel(dd[1], dd[2], dd[3], tt[1], tt[2], tt[3]) : dd \in FullDates, tt \in FullTimes }
\* labels of no form: no text, no number, no unit, text after the unit, a
\* word for a day, no month, a month of three digits
NoGrammar ==
    { <<>>, <<" ">>, <<"x">>, <<"3", "ji", "kan">>, <<"3", "fun", "mae", "x">>,
      <<"kinou">>, <<"gatsu", "9", "nichi">>, <<"1", "2", "3", "gatsu", "1", "nichi">> }
ParseLabels == RelLabels \cup MDLabels \cup FullLabels \cup NoGrammar
\* reference times: mid-February, a leap day just after midnight, the last
\* second of a year
Nows == { NowT, ToSec(2024, 2, 29, 0, 0, 30), ToSec(2025, 12, 31, 23, 59, 59) }

ParseInit ==
    /\ TravIdle
    /\ HelperIdle
    /\ AcqIdle
    /\ SessIdle
    /\ arg_text \in ParseLabels
    /\ arg_now \in Nows
    /\ arg_url = <<>>
    /\ arg_width = 0
    /\ returned = {}
    /\ ret_dt = <<>>
    /\ ret_url = <<>>

\* human_time_to_dt(arg_text, arg_now) returns
CallParse ==
    /\ "human_time_to_dt" \notin returned
    /\ ret_dt' = human_time_to_dt(arg_text, arg_now)
    /\ returned' = returned \cup {"human_time_to_dt"}
    /\ UNCHANGED <<arg_text, arg_now, arg_url, arg_width, ret_url>>
    /\ UNCHANGED helperVars
    /\ UNCHANGED <<travVars, acqVars, sessVars>>

ParseSpec == ParseInit /\ [][CallParse]_vars

(***************************************************************************)
(* safe_click on its own: one call on an element (lines 152-188).          *)
(***************************************************************************)
\* what the wait for a displayed and enabled element ends with, and what each
\* click strategy does on the element
WaitOutcomes == {"ready", "timeout", "stale"}
ClickOutcomes == {"ok", "intercepted", "not_interactable", "stale", "webdriver", "other"}
ScriptOutcomes == {"ok", "raises"}
Elements ==
    [wait : WaitOutcomes, click : ClickOutcomes, js : ScriptOutcomes, chain : ScriptOutcomes]

\* line 173: the exceptions of el.click() the first except clause takes;
\* StaleElementReferenceException is a WebDriverException, so the clause of
\* line 175 is never reached
CaughtAtClick(exc) == exc \in {"intercepted", "not_interactable", "webdriver", "stale"}

ClickInit ==
    /\ TravIdle
    /\ AcqIdle
    /\ SessIdle
    /\ arg_text = <<>>
    /\ arg_now = 0
    /\ arg_url = <<>>
    /\ arg_width = 0
    /\ returned = {}
    /\ ret_dt = <<>>
    /\ ret_url = <<>>
    /\ GroupIdle
    /\ BackIdle
    /\ el \in Elements
    /\ cpc = "scroll"
    /\ tried = <<>>
    /\ click_ret = "none"

\* lines 153-156: the element is scrolled into view, an exception is dropped
ScrollIntoView ==
    /\ cpc = "scroll"
    /\ cpc' = "wait"
    /\ UNCHANGED <<el, tried, click_ret>>
    /\ UNCHANGED <<arg_text, arg_now, arg_url, arg_width, returned, ret_dt, ret_url>>
    /\ UNCHANGED <<travVars, acqVars, sessVars, groupVars, backVars>>

\* lines 158-167: the wait for the element; a stale element ends the call
WaitReady ==
    /\ cpc = "wait"
    /\ IF el.wait = "stale"
       THEN /\ click_ret' = "false"
            /\ cpc' = "done"
       ELSE /\ cpc' = "click"
            /\ UNCHANGED click_ret
    /\ UNCHANGED <<el, tried>>
    /\ UNCHANGED <<arg_text, arg_now, arg_url, arg_width, returned, ret_dt, ret_url>>
    /\ UNCHANGED <<travVars, acqVars, sessVars, groupVars, backVars>>

\* lines 169-176: el.click()
OrdinaryClick ==
    /\ cpc = "click"
    /\ tried' = Append(tried, "click")
    /\ IF el.click = "ok"
       THEN /\ click_ret' = "true"
            /\ cpc' = "done"
       ELSE IF CaughtAtClick(el.click)
       THEN /\ cpc' = "js"
            /\ UNCHANGED click_ret
       ELSE /\ click_ret' = "raised"
            /\ cpc' = "done"
    /\ UNCHANGED el
    /\ UNCHANGED <<arg_text, arg_now, arg_url, arg_width, returned, ret_dt, ret_url>>
    /\ UNCHANGED <<travVars, acqVars, sessVars, groupVars, backVars>>

\* lines 178-182: the click by script
ScriptClick ==
    /\ cpc = "js"
    /\ tried' = Append(tried, "js")
    /\ IF el.js = "ok"
       THEN /\ click_ret' = "true"
            /\ cpc' = "done"
       ELSE /\ cpc' = "chain"
            /\ UNCHANGED click_ret
    /\ UNCHANGED el
    /\ UNCHANGED <<arg_text, arg_now, arg_url, arg_width, returned, ret_dt, ret_url>>
    /\ UNCHANGED <<travVars, acqVars, sessVars, groupVars, backVars>>

\* lines 184-188: the click by ActionChains
PointerClick ==
    /\ cpc = "chain"
    /\ tried' = Append(tried, "chain")
    /\ click_ret' = IF el.chain = "ok" THEN "true" ELSE "false"
    /\ cpc' = "done"
    /\ UNCHANGED el
    /\ UNCHANGED <<arg_text, arg_now, arg_url, arg_width, returned, ret_dt, ret_url>>
    /\ UNCHANGED <<travVars, acqVars, sessVars, groupVars, backVars>>

ClickNext == ScrollIntoView \/ WaitReady \/ OrdinaryClick \/ ScriptClick \/ PointerClick
ClickSpec == ClickInit /\ [][ClickNext]_vars

(***************************************************************************)
(* group_images_by_date on its own: one call on a detail page.             *)
(***************************************************************************)
MaxRegions == 2

Txt_x == <<"x">>
\* the text of a date region: a month and day, a relative time, no date
RegionTexts == {Lbl_md, Lbl_3h, Txt_x}
\* the title: none, a month and day, no date
Titles == {<<>>, MDLabel(1, 5, <<>>), Txt_x}
\* the text of the page's body: none, a relative time, no date
Visibles == {<<>>, Lbl_5d, Txt_x}
\* soup.get_text(" ", strip=True): the title's text comes first
PageText(title, visible) ==
    IF title = <<>> THEN visible
    ELSE IF visible = <<>> THEN title
    ELSE title \o <<" ">> \o visible
GroupPosts ==
    { [markup |-> m, title |-> t, body |-> PageText(t, v), ddate |-> <<>>, imgs |-> <<Url_a>>] :
        m \in UNION { [1..n -> RegionTexts] : n \in 0..MaxRegions },
        t \in Titles, v \in Visibles }
\* the caller's date: the day of now, a day long before
Fallbacks == {DateOf(NowT), DateOf(NowT) - 30}

GroupInit ==
    /\ TravIdle
    /\ AcqIdle
    /\ SessIdle
    /\ ClickIdle
    /\ BackIdle
    /\ arg_text = <<>>
    /\ arg_now = NowT
    /\ arg_url = <<>>
    /\ arg_width = 0
    /\ returned = {}
    /\ ret_dt = <<>>
    /\ ret_url = <<>>
    /\ arg_post \in GroupPosts
    /\ arg_fallback \in Fallbacks
    /\ ret_group = <<>>

\* group_images_by_date(arg_post, now, arg_fallback) returns
CallGroup ==
    /\ "group_images_by_date" \notin returned
    /\ ret_group' = group_images_by_date(arg_post, arg_now, arg_fallback)
    /\ returned' = returned \cup {"group_images_by_date"}
    /\ UNCHANGED <<arg_text, arg_now, arg_url, arg_width, ret_dt, ret_url>>
    /\ UNCHANGED <<arg_post, arg_fallback, clickVars, backVars>>
    /\ UNCHANGED <<travVars, acqVars, sessVars>>

GroupSpec == GroupInit /\ [][CallGroup]_vars

(***************************************************************************)
(* safe_go_back on its own: one call on a detail page (lines 680-736).     *)
(***************************************************************************)
MaxAffordances == 2

\* a back or close element: whether it is displayed and enabled (or the
\* question raises), and whether the two scripts run on it go through
Affordances ==
    { [shown |-> "no", scroll |-> "ok", click |-> "ok"],
      [shown |-> "raises", scroll |-> "ok", click |-> "ok"],
      [shown |-> "yes", scroll |-> "ok", click |-> "ok"],
      [shown |-> "yes", scroll |-> "raises", click |-> "ok"],
      [shown |-> "yes", scroll |-> "ok", click |-> "raises"] }
\* how history.back(), driver.back() and the wait for the feed end
Browsers ==
    [history : {"ok", "raises"}, driverback : {"ok", "raises"}, wait : {"ok", "timeout"}]

BackInit ==
    /\ TravIdle
    /\ AcqIdle
    /\ SessIdle
    /\ ClickIdle
    /\ GroupIdle
    /\ arg_text = <<>>
    /\ arg_now = 0
    /\ arg_url = <<>>
    /\ arg_width = 0
    /\ returned = {}
    /\ ret_dt = <<>>
    /\ ret_url = <<>>
    /\ candidates \in UNION { [1..n -> Affordances] : n \in 0..MaxAffordances }
    /\ env \in Browsers
    /\ gpc = "cands"
    /\ gidx = 1
    /\ clicks = <<>>
    /\ backs = <<>>
    /\ go_ret = "none"

\* lines 705-709: the element is displayed and enabled and both scripts ran
ClickedThrough(c) == c.shown = "yes" /\ c.scroll = "ok" /\ c.click = "ok"

\* line 718: the generic back navigation is due
AlwaysBack(clicked) == TRUE
NeedsBack(clicked) == clicked = <<>>

\* lines 701-716 on the next element: the first that is clicked ends both loops
TryAffordance ==
    /\ gpc = "cands"
    /\ gidx <= Len(candidates)
    /\ IF ClickedThrough(candidates[gidx])
       THEN /\ clicks' = Append(clicks, gidx)
            /\ gpc' = IF NeedsBack(clicks') THEN "back" ELSE "wait"
            /\ UNCHANGED gidx
       ELSE /\ gidx' = gidx + 1
            /\ UNCHANGED <<clicks, gpc>>
    /\ UNCHANGED <<candidates, env, backs, go_ret>>
    /\ UNCHANGED <<arg_text, arg_now, arg_url, arg_width, returned, ret_dt, ret_url>>
    /\ UNCHANGED <<travVars, acqVars, sessVars, clickVars, groupVars>>

\* lines 701, 718: the loops are through
AffordancesDone ==
    /\ gpc = "cands"
    /\ gidx > Len(candidates)
    /\ gpc' = IF NeedsBack(clicks) THEN "back" ELSE "wait"
    /\ UNCHANGED <<candidates, env, gidx, clicks, backs, go_ret>>
    /\ UNCHANGED <<arg_text, arg_now, arg_url, arg_width, returned, ret_dt, ret_url>>
    /\ UNCHANGED <<travVars, acqVars, sessVars, clickVars, groupVars>>

\* lines 719-725: history.back(), and driver.back() when that raises
GenericBack ==
    /\ gpc = "back"
    /\ backs' = backs \o (IF env.history = "ok" THEN <<"history">>
                          ELSE <<"history", "driver">>)
    /\ gpc' = "wait"
    /\ UNCHANGED <<candidates, env, gidx, clicks, go_ret>>
    /\ UNCHANGED <<arg_text, arg_now, arg_url, arg_width, returned, ret_dt, ret_url>>
    /\ UNCHANGED <<travVars, acqVars, sessVars, clickVars, groupVars>>

\* lines 728-735: the wait for the feed; a timeout is dropped
WaitForFeed ==
    /\ gpc = "wait"
    /\ go_ret' = "returned"
    /\ gpc' = "done"
    /\ UNCHANGED <<candidates, env, gidx, clicks, backs>>
    /\ UNCHANGED <<arg_text, arg_now, arg_url, arg_width, returned, ret_dt, ret_url>>
    /\ UNCHANGED <<travVars, acqVars, sessVars, clickVars, groupVars>>

BackNext == TryAffordance \/ AffordancesDone \/ GenericBack \/ WaitForFeed
BackSpec == BackInit /\ [][BackNext]_vars

\* main from line 882 on: a run is in its traversal or in its acquisition step
MainInit == Init \/ AcqInit
MainNext == Next \/ AcqNext
\* sequential code that runs on: every enabled step is taken
MainSpec == MainInit /\ [][MainNext]_vars /\ WF_vars(MainNext)

\* main is started again when it has ended: same list, same responses, and
\* the directory as the first run left it
Rerun ==
    /\ stage = "finished"
    /\ twice /\ run = 1
    /\ run' = 2
    /\ stage' = "scan"
    /\ item_idx' = 0
    /\ existing_files' = {}
    /\ downloaded_count' = 0
    /\ skipped_count' = 0
    /\ out_path' = <<>>
    /\ total' = 0
    /\ used' = "none"
    /\ requests' = {}
    /\ written' = {}
    /\ exceeded' = FALSE
    /\ resp' = NoResponse
    /\ files0' = files
    /\ before' = None
    /\ pos' = 1
    /\ UNCHANGED <<items, files, twice, remote>>
    /\ UNCHANGED <<travVars, sessVars, fnVars>>
RerunNext == AcqNext \/ Rerun
RerunSpec == RerunInit /\ [][RerunNext]_vars

(***************************************************************************)
(* Claims about the traversal.                                             *)
(***************************************************************************)
\* C1: a card whose own label parses to a time before now - lookback is never
\* opened, and nothing recorded from it is in the traversal's output.
C1_ExpiredNeverOpened ==
    \A k \in 1..Len(feed) :
        feed[k].label \in ExpiredLabels =>
            /\ opened[k] = 0
            /\ \A r \in 1..Len(result) : result[r][3][2] # k - 1

\* C2: within one traversal a card is opened at most once.
C2_OpenedAtMostOnce == \A k \in 1..Len(feed) : opened[k] <= 1

\* the index of the first triple of us that carries URL u
FirstIndex(us, u) == CHOOSE k \in 1..Len(us) : us[k][1] = u /\ \A j \in 1..(k - 1) : us[j][1] # u

\* C3: the returned list holds each recorded URL exactly once, with the
\* timestamp and key of the URL's first record, in order of first record.
C3_DedupFirstSeen ==
    pc = "done" =>
        /\ {result[r][1] : r \in 1..Len(result)} = {urls[k][1] : k \in 1..Len(urls)}
        /\ \A r, q \in 1..Len(result) : r # q => result[r][1] # result[q][1]
        /\ \A r \in 1..Len(result) : result[r] = urls[FirstIndex(urls, result[r][1])]
        /\ \A r, q \in 1..Len(result) :
               r < q => FirstIndex(urls, result[r][1]) < FirstIndex(urls, result[q][1])
\* a URL was recorded twice, under different keys, and the list was returned
C3_Witness ==
    /\ pc = "done"
    /\ \E k, j \in 1..Len(urls) : k < j /\ urls[k][1] = urls[j][1] /\ urls[k][3] # urls[j][3]
    /\ Len(result) >= 2

C5_UnchangedHeightStops ==
    [][stuckScrollSeen => (sweeps' = sweeps /\ scrolls' = scrolls /\ opened' = opened)]_vars

\* C6: the traversal ends, after at most scroll_steps sweeps and scrolls.
C6_BoundedByBudget ==
    /\ <>(pc = "done")
    /\ [](sweeps <= scroll_steps /\ scrolls <= scroll_steps)
\* a feed that grew at every scroll used up a budget of two or more
C6_Witness ==
    /\ pc = "done"
    /\ scroll_steps >= 2
    /\ sweeps = scroll_steps
    /\ scrolls = scroll_steps
    /\ pageH = 1 + scroll_steps

\* C7: every URL that group_images_by_date returns, and so every URL the
\* traversal records, begins with the trusted prefix https://image.codmon.com/.
C7_OnlyTrustedOrigin == \A k \in 1..Len(urls) : StartsWith(urls[k][1], IMG_HOST_PREFIX)

(***************************************************************************)
(* Claims about the acquisition step.                                      *)
(***************************************************************************)
\* the items main has gone through whose URL begins with the trusted prefix
TrustedDone ==
    {k \in 1..Len(items) : k < item_idx /\ StartsWith(items[k][1], IMG_HOST_PREFIX)}
TrustedAll == {k \in 1..Len(items) : StartsWith(items[k][1], IMG_HOST_PREFIX)}

\* C8: a request is issued and a file written only for items whose URL begins
\* with the trusted prefix; any other item is neither requested, nor written,
\* nor counted as downloaded or skipped.
C8_OnlyTrustedAcquired ==
    /\ \A r \in requests : StartsWith(r, IMG_HOST_PREFIX)
    /\ \A n \in written : \E k \in TrustedAll : FinalFilename(items[k]) = n
    /\ downloaded_count + skipped_count <= Cardinality(TrustedDone)
    /\ stage \in {"get0", "stream", "get1", "dlret", "dlraise"} =>
           StartsWith(items[item_idx][1], IMG_HOST_PREFIX)
\* the run is through a list with an untrusted URL and a downloaded image
C8_Witness ==
    /\ stage = "finished"
    /\ \E k \in 1..Len(items) : ~StartsWith(items[k][1], IMG_HOST_PREFIX)
    /\ downloaded_count >= 1
    /\ requests # {}

\* C9: when download_with_fallback returns a tier, the destination file
\* exists and is not empty, and the response of that tier had a success status
\* and an image content type.
C9_ReturnedFileNonEmpty ==
    stage = "dlret" =>
        /\ files[out_path] # None
        /\ files[out_path][1] > 0
        /\ ~resp.raised /\ resp.status_ok /\ resp.is_image

\* C10: the file never holds more than the ceiling while tier 1 streams; once
\* the stream went over the ceiling the file is gone when tier 2 is requested,
\* and only tier 2 can be the result.
C10_OversizeFallsBack ==
    /\ stage = "stream" => (files[out_path] # None /\ files[out_path][1] <= max_bytes_for_width0
                            /\ files[out_path][1] = total /\ ~exceeded)
    /\ (exceeded /\ stage = "get1") => files[out_path] = None
    /\ (exceeded /\ stage = "dlret") => used = "width=1080"
    /\ exceeded => total > max_bytes_for_width0
\* an oversized tier-1 stream was followed by an accepted tier-2 response
C10_Witness ==
    /\ stage = "dlret"
    /\ exceeded
    /\ used = "width=1080"
    /\ files[out_path] # None

\* C11: when download_with_fallback raises, no file is at the destination that
\* was not there when it was called.
C11_NoFileLeftOnFailure ==
    (stage = "dlraise" /\ before = None) => files[out_path] = None

\* the two requests of the download in progress
Tier1Request == Url0(item_idx)
Tier2Request == Url1080(item_idx)

\* C12: tier 1 is requested first; when the download is over tier 2 was
\* requested exactly when tier 1 was not the result; a tier-2 result leaves the
\* file written from the tier-2 body.
C12_TierTwoIffTierOneRefused ==
    /\ stage \in {"stream", "get1", "dlret", "dlraise"} => Tier1Request \in requests
    /\ stage \in {"dlret", "dlraise"} => (Tier2Request \in requests <=> used # "width=0")
    /\ (stage = "dlret" /\ used = "width=1080") =>
           (files[out_path] # None /\ out_path \in written)

\* the names of the files in a directory
Names(dir) == {n \in DOMAIN dir : dir[n] # None}
\* the items whose file is in the directory when the run in progress starts
FoundAtStart ==
    {k \in 1..Len(items) : TrustedUrl(items[k][1]) /\ FinalFilename(items[k]) \in Names(files0)}

\* C13: in the second of two runs on the same list, remote side and directory
\* no request is issued for an item whose file the first run left, and when
\* the run ends nothing was downloaded and the directory holds no new name.
C13_SecondRunCreatesNothing ==
    Replaying =>
        /\ \A k \in FoundAtStart :
               /\ Url0(k) \notin requests
               /\ Url1080(k) \notin requests
        /\ stage = "finished" =>
               /\ Names(files) \subseteq Names(files0)
               /\ downloaded_count = 0
               /\ skipped_count = Cardinality(FoundAtStart)
\* the second run is over: it skipped an image the first run had downloaded
\* and asked again for one the first run had failed on
C13_Witness ==
    /\ Replaying
    /\ stage = "finished"
    /\ skipped_count >= 1
    /\ requests # {}
    /\ \E k \in FoundAtStart : remote[k].r0 = Accepted /\ remote[k].stream = <<1>>

\* C14: a failed download is followed by the next item and an exception in the
\* per-card block by the next card; the traversal returns and the acquisition
\* step reaches its summary with every item gone through.
C14_FailuresDoNotAbort ==
    /\ <>(pc = "done" /\ stage \in {"idle", "finished"})
    /\ [](stage = "finished" => item_idx = Len(items) + 1)
    /\ [][stage = "dlraise" => (stage' = "item" /\ item_idx' = item_idx + 1)]_vars
    /\ [][(pc = "card" /\ card_idx' # card_idx /\ feed[card_idx + 1].beh = "pageerr")
             => pc' = "card"]_vars
\* the summary was reached after a download that failed and a later one that
\* succeeded
C14_Witness ==
    /\ stage = "finished"
    /\ \E k, j \in 1..Len(items) :
           /\ k < j
           /\ Url0(k) \in requests
           /\ FinalFilename(items[k]) \notin existing_files
           /\ TrustedUrl(items[j][1])
           /\ FinalFilename(items[j]) \in written \cap existing_files

\* C19: a file that is in the directory when the step starts keeps its
\* content and is never opened for writing; an item whose name is such a file
\* causes no request, and is counted as skipped once the loop has passed it.
C19_PresentFilesUntouched ==
    /\ \A n \in Names(files0) : files[n] = files0[n] /\ n \notin written
    /\ \A k \in FoundAtStart : Url0(k) \notin requests /\ Url1080(k) \notin requests
    /\ stage \notin {"idle", "scan"} =>
           skipped_count >= Cardinality({k \in FoundAtStart : k < item_idx})
\* a run that skipped an item whose file was there and downloaded another
C19_Witness ==
    /\ stage = "finished"
    /\ ~twice
    /\ FoundAtStart # {}
    /\ skipped_count = Cardinality(FoundAtStart)
    /\ downloaded_count >= 1

\* C20: a card whose processing raised leaves the traversal back on the feed
\* (the card's way back works), and the card after it in the sweep is
\* processed as well.
C20_ExceptionReturnsToFeed ==
    /\ [][(pc = "card" /\ card_idx' # card_idx /\ feed[card_idx + 1].beh = "pageerr")
              => view' = safe_go_back(feed[card_idx + 1])]_vars
    /\ [][(pc = "card" /\ card_idx >= 1 /\ card_idx < base_n
            /\ feed[card_idx].beh = "pageerr")
              => card_idx' = card_idx + 1]_vars

FilteredOut ==
    {k \in 1..Len(items) : ~ItemFacts[items[k]].trusted
                            \/ ItemFacts[items[k]].original_filename = <<>>}
Requested == {k \in 1..Len(items) : Url0(k) \in requests}
\* C25: when the loop has ended, downloaded_count is the number of files the
\* run created, skipped_count is the number of items that were found present,
\* and every item was filtered out, skipped, or handed to the download, which
\* either counted it as downloaded or failed.
C25_CountsMatchOutcome ==
    (stage = "finished" /\ ~twice) =>
        /\ downloaded_count = Cardinality(Names(files) \ Names(files0))
        /\ skipped_count = Cardinality((1..Len(items)) \ (FilteredOut \cup Requested))
        /\ FilteredOut \cap Requested = {}
        /\ downloaded_count <= Cardinality(Requested)

(***************************************************************************)
(* Claims about the browser session.                                       *)
(***************************************************************************)
\* C15: when the process has ended the driver, if it was created, was quit.
C15_DriverQuitOnEveryPath == spc = "exit" => driver # "open"

(***************************************************************************)
(* Claims about rewrite_width and human_time_to_dt.                        *)
(***************************************************************************)
\* C16: the query of the rewritten URL, parsed with every parameter kept, has
\* the one width parameter asked for and every other parameter of the
\* original query with its values, and no other.
C16_RewriteKeepsParameters ==
    "rewrite_width" \in returned =>
        LET old_q == parse_qs(UrlQuery(arg_url), TRUE)
            new_q == parse_qs(UrlQuery(ret_url), TRUE)
        IN  /\ ValuesOf(new_q, Txt_width) = <<str(arg_width)>>
            /\ \A k \in 1..Len(old_q) :
                   old_q[k][1] # Txt_width => ValuesOf(new_q, old_q[k][1]) = old_q[k][2]
            /\ \A k \in 1..Len(new_q) :
                   new_q[k][1] # Txt_width => HasName(old_q, new_q[k][1])

\* C17: a label "N分前", "N時間前" or "N日前" yields now less N minutes, hours
\* or days; a label "M月D日", with or without text after it, yields 23:59:59
\* of that day in the year of now, also when that lies after now (and nothing
\* when the year of now has no such day); a label of no form yields nothing.
C17_LabelsParsed ==
    "human_time_to_dt" \in returned =>
        /\ \A n \in Ns, g \in Gaps :
               /\ arg_text = RelLabel(n, g, Unit_min) => ret_dt = Some(arg_now - 60 * n)
               /\ arg_text = RelLabel(n, g, Unit_hour) => ret_dt = Some(arg_now - 3600 * n)
               /\ arg_text = RelLabel(n, g, Unit_day) => ret_dt = Some(arg_now - 86400 * n)
        /\ \A m \in Months, d \in Days, tl \in Tails :
               arg_text = MDLabel(m, d, tl) =>
                   ret_dt = IF ValidDate(YearOf(arg_now), m, d)
                            THEN Some(ToSec(YearOf(arg_now), m, d, 23, 59, 59))
                            ELSE None
        /\ arg_text \in NoGrammar => ret_dt = None
\* a month and day after now was parsed, and lies after now
C17_Witness ==
    /\ "human_time_to_dt" \in returned
    /\ arg_text = MDLabel(9, 29, <<" ", "(", ")">>)
    /\ arg_now = NowT
    /\ ret_dt # None
    /\ ret_dt[1] > arg_now

\* C18: a label of the full form yields exactly the second it names.
C18_FullFormParsed ==
    "human_time_to_dt" \in returned =>
        \A dd \in FullDates, tt \in FullTimes :
            arg_text = FullLabel(dd[1], dd[2], dd[3], tt[1], tt[2], tt[3]) =>
                ret_dt = Some(ToSec(dd[1], dd[2], dd[3], tt[1], tt[2], tt[3]))

(***************************************************************************)
(* Claims about safe_click, safe_go_back and group_images_by_date.         *)
(***************************************************************************)
\* C21: safe_click gives False only after the ordinary click, the click by
\* script and the pointer action were tried, in that order, and the
\* strategies tried are at every moment the first ones of that order.
C21_FailureAfterThreeStrategies ==
    /\ \E n \in 0..3 : tried = SubSeq(<<"click", "js", "chain">>, 1, n)
    /\ click_ret = "false" => tried = <<"click", "js", "chain">>

\* the candidates in the order markup regions, title, text of the page
CandidatesInOrder(post) ==
    SelectSeq(post.markup \o <<post.title, post.body>>, LAMBDA t : Strip(t) # <<>>)
\* C23: the date returned is the date of the first of the candidates, taken in
\* the order markup regions, title, text of the page, that parses, and the
\* fallback date when none of them parses.
C23_FirstParsingCandidate ==
    "group_images_by_date" \in returned =>
        LET found == FirstParsedDate(CandidatesInOrder(arg_post), arg_now)
        IN  ret_group[1] = IF found # None THEN found[1] ELSE arg_fallback

\* the elements that are displayed and enabled, and those on which the click
\* also goes through
Shown == {k \in 1..Len(candidates) : candidates[k].shown = "yes"}
Clickable ==
    {k \in Shown : candidates[k].scroll = "ok" /\ candidates[k].click = "ok"}
\* C24 as stated: at most one element is clicked, the first that is displayed
\* and enabled; the generic back navigation is triggered exactly when none
\* was clicked; the call returns.
C24_ClicksFirstShown ==
    /\ Len(clicks) <= 1
    /\ clicks # <<>> => (clicks[1] \in Shown /\ \A k \in Shown : clicks[1] <= k)
    /\ gpc \in {"wait", "done"} => (backs # <<>> <=> clicks = <<>>)
    /\ go_ret # "raised"
    /\ gpc = "done" => go_ret = "returned"
\* C24, amended: at most one element is clicked, the first that is displayed
\* and enabled and on which the scroll and the click go through, and one is
\* clicked when there is such an element; the generic back navigation is
\* triggered exactly when none was clicked; the call returns, also when the
\* feed does not reappear.
C24_ClicksFirstClickable ==
    /\ Len(clicks) <= 1
    /\ clicks # <<>> => (clicks[1] \in Clickable /\ \A k \in Clickable : clicks[1] <= k)
    /\ gpc \in {"wait", "done"} => (clicks = <<>> <=> Clickable = {})
    /\ gpc \in {"wait", "done"} => (backs # <<>> <=> clicks = <<>>)
    /\ backs # <<>> => backs[1] = "history"
    /\ go_ret # "raised"
    /\ gpc = "done" => go_ret = "returned"
\* the click on the first displayed element raised, the second was clicked,
\* and the feed did not reappear
C24_Witness ==
    /\ gpc = "done"
    /\ clicks = <<2>>
    /\ 1 \in Shown
    /\ backs = <<>>
    /\ env.wait = "timeout"

=============================================================================
